---- MODULE Spec2Model ----
(***************************************************************************)
(* Chronological hierarchical clustering (Ward linkage restricted to       *)
(* chronologically adjacent clusters), as implemented by                   *)
(* hierarchical_chronological_clustering in time_series_clustering.py.     *)
(*                                                                         *)
(* Numbers are IEEE-like extended rationals: a finite value is an exact    *)
(* fraction n/d in lowest terms, and NaN and the two infinities behave as  *)
(* they do in numpy (NaN is absorbing, inf - inf = NaN, every comparison   *)
(* with NaN is false).  Rounding of finite values is not modelled.         *)
(*                                                                         *)
(* Period indices are 0-based as in the source; TLA+ sequences are         *)
(* 1-based, so period p is row data[p + 1] and the Python list position k  *)
(* is clusters[k + 1].                                                     *)
(***************************************************************************)
EXTENDS Integers, Sequences, FiniteSets, TLC

VARIABLES
    data,               \* argument: the period matrix, one row per period
    n_reduced,          \* argument: the requested number of clusters
    pc,                 \* position in the function body
    n,                  \* local n = data.shape[0]
    clusters,           \* local list of lists of period indices
    min_dissimilarity,  \* local of the scan
    merge_idx,          \* local of the scan: the pair chosen so far
    i,                  \* loop variable of the scan
    cluster_centroids,  \* returned table of centroids
    cluster_weights,    \* returned table of weights
    err,                \* kind of the exception that ended the call
    merges,             \* history: the pairs merged by this invocation
    calls,              \* number of the current invocation
    legacy_numpy,       \* the installed numpy builds ragged object arrays
    prev,               \* history: outcome of the previous invocation
    \* process_scenarios run by the pool of worker processes
    wpc,                \* per scenario: position of its run_scenario task
    clustered_data,     \* per scenario: the task's private result table
    folder,             \* file system: the output folder exists
    files,              \* file system: the files of the output folder
    \* equalize_annual_energy_with_peak_one
    epc,                \* position in the function body
    df,                 \* argument: per year, the values of its hours
    target_annual_sum,  \* argument: None or the target
    per_year,           \* local table: the aggregates and a, b per year
    S_star,             \* local: the common target
    yi,                 \* loop position over the years
    df_out              \* per year, the values of the output column

clusterVars == <<data, n_reduced, pc, n, clusters, min_dissimilarity, merge_idx,
                 i, cluster_centroids, cluster_weights, err, merges, calls,
                 legacy_numpy, prev>>

poolVars == <<wpc, clustered_data, folder, files>>

eqVars == <<epc, df, target_annual_sum, per_year, S_star, yi, df_out>>

vars == <<clusterVars, poolVars, eqVars>>

--------------------------------------------------------------------------
(* Bounds of the input space *)

MaxN == 4

Dims == {1, 2}

CallIds == {1, 2}

(* scenarios handed to the pool: the program maps range(1, 31) *)
MaxScenarios == 3

(* years of the frame given to equalize_annual_energy_with_peak_one *)
MaxYears == 2

HourCounts == {1, 2, 3}

(* def process_scenarios(scenarios, n_reduced=672) *)
DefaultNReduced == 672

--------------------------------------------------------------------------
(* Extended rational arithmetic (numpy float semantics without rounding) *)

RECURSIVE GCD(_, _)
GCD(a, b) == IF b = 0 THEN a ELSE GCD(b, a % b)

Abs(x) == IF x < 0 THEN -x ELSE x

Sgn(x) == IF x < 0 THEN -1 ELSE IF x > 0 THEN 1 ELSE 0

Rat(p, q) ==
    LET e == GCD(Abs(p), q)
    IN  [k |-> "fin", n |-> p \div e, d |-> q \div e]

Fin(v) == [k |-> "fin", n |-> v, d |-> 1]

NaN == [k |-> "nan", n |-> 0, d |-> 1]

PInf == [k |-> "inf", n |-> 1, d |-> 1]

NInf == [k |-> "inf", n |-> -1, d |-> 1]

(* Python's None where a number is optional *)
None == [k |-> "none", n |-> 0, d |-> 1]

IsFinite(a) == a.k = "fin"

XNeg(a) == IF a.k = "nan" THEN a ELSE [a EXCEPT !.n = -a.n]

XAdd(a, b) ==
    IF a.k = "nan" \/ b.k = "nan" THEN NaN
    ELSE IF a.k = "inf" /\ b.k = "inf" THEN (IF a.n = b.n THEN a ELSE NaN)
    ELSE IF a.k = "inf" THEN a
    ELSE IF b.k = "inf" THEN b
    ELSE Rat(a.n * b.d + b.n * a.d, a.d * b.d)

XSub(a, b) == XAdd(a, XNeg(b))

XMul(a, b) ==
    IF a.k = "nan" \/ b.k = "nan" THEN NaN
    ELSE IF a.k = "inf" \/ b.k = "inf"
         THEN LET s == Sgn(a.n) * Sgn(b.n)
              IN  IF s = 0 THEN NaN ELSE IF s > 0 THEN PInf ELSE NInf
    ELSE Rat(a.n * b.n, a.d * b.d)

XLess(a, b) ==
    IF a.k = "nan" \/ b.k = "nan" THEN FALSE
    ELSE IF a.k = "inf" /\ b.k = "inf" THEN a.n < b.n
    ELSE IF a.k = "inf" THEN a.n < 0
    ELSE IF b.k = "inf" THEN b.n > 0
    ELSE a.n * b.d < b.n * a.d

--------------------------------------------------------------------------
(* The inputs a caller can pass *)

FiniteVals == {Fin(0), Fin(1), Fin(3)}

MixedVals == {Fin(0), NaN, PInf}

PlaneVals == {Fin(0), Fin(1)}

Matrix(len, dim, vals) == [1..len -> [1..dim -> vals]]

RaggedShapes(len) == {s \in [1..len -> Dims] : \E p, q \in 1..len : s[p] # s[q]}

Ragged(len) == {[p \in 1..len |-> [c \in 1..s[p] |-> Fin(0)]] : s \in RaggedShapes(len)}

(* The worked example: periods [[0.0], [1.0], [2.0], [10.0]] *)
Scenario == <<<<Fin(0)>>, <<Fin(1)>>, <<Fin(2)>>, <<Fin(10)>>>>

Inputs ==
    {Scenario}
    \cup UNION {Matrix(len, 1, FiniteVals) \cup Matrix(len, 1, MixedVals)
                \cup Ragged(len) : len \in 0..MaxN}
    \cup UNION {Matrix(len, 2, PlaneVals) : len \in 1..(MaxN - 1)}

Rectangular == \A p, q \in 1..Len(data) : Len(data[p]) = Len(data[q])

NoPrev ==
    [pc |-> "none", n_reduced |-> 0, merges |-> <<>>, cluster_centroids |-> <<>>,
     cluster_weights |-> <<>>, err |-> "none"]

(* The clustering function is not being called *)
ClusterIdle ==
    /\ data = <<>> /\ n_reduced = 0 /\ pc = "off" /\ n = 0 /\ clusters = <<>>
    /\ min_dissimilarity = PInf /\ merge_idx = <<-1, -1>> /\ i = 0
    /\ cluster_centroids = <<>> /\ cluster_weights = <<>> /\ err = "none"
    /\ merges = <<>> /\ calls = 1 /\ legacy_numpy = FALSE /\ prev = NoPrev

ScenarioIds == 1..MaxScenarios

(* No pool is running *)
PoolIdle ==
    /\ wpc = [s \in ScenarioIds |-> "off"]
    /\ clustered_data = [s \in ScenarioIds |-> <<>>]
    /\ folder = FALSE
    /\ files = {}

(* equalize_annual_energy_with_peak_one is not being called *)
EqIdle ==
    /\ epc = "off" /\ df = <<>> /\ target_annual_sum = None
    /\ per_year = <<>> /\ S_star = NaN /\ yi = 0 /\ df_out = <<>>

(* n_reduced of a call on data: one below 1 up to one above n *)
Targets == -1..(Len(data) + 1)

Init ==
    /\ data \in Inputs
    /\ n_reduced \in Targets
    /\ pc = "call"
    /\ n = 0
    /\ clusters = <<>>
    /\ min_dissimilarity = PInf
    /\ merge_idx = <<-1, -1>>
    /\ i = 0
    /\ cluster_centroids = <<>>
    /\ cluster_weights = <<>>
    /\ err = "none"
    /\ merges = <<>>
    /\ calls = 1
    \* read only when a ragged table is built, so drawn only for such inputs
    /\ legacy_numpy \in {b \in BOOLEAN : b => ~Rectangular}
    /\ prev = NoPrev
    /\ PoolIdle
    /\ EqIdle

--------------------------------------------------------------------------
(* compute_centroid and compute_dissimilarity *)

RECURSIVE SumCol(_, _, _)
SumCol(cluster, c, upto) ==
    IF upto = 0 THEN Fin(0)
    ELSE XAdd(SumCol(cluster, c, upto - 1), data[cluster[upto] + 1][c])

(* np.mean without axis=0: one mean over every entry of the member rows *)
compute_centroid_flat(cluster) ==
    LET dim == Len(data[cluster[1] + 1])
        RECURSIVE Total(_)
        Total(c) == IF c = 0 THEN Fin(0)
                    ELSE XAdd(Total(c - 1), SumCol(cluster, c, Len(cluster)))
    IN  [c \in 1..dim |-> XMul(Total(dim), Rat(1, dim * Len(cluster)))]

(* the mean of the first and the last member only *)
compute_centroid_endpoints(cluster) ==
    [c \in 1..Len(data[cluster[1] + 1]) |->
        XMul(XAdd(data[cluster[1] + 1][c], data[cluster[Len(cluster)] + 1][c]),
             Rat(1, 2))]

compute_centroid(cluster) ==
    [c \in 1..Len(data[cluster[1] + 1]) |->
        XMul(SumCol(cluster, c, Len(cluster)), Rat(1, Len(cluster)))]

RECURSIVE SqDist(_, _, _)
SqDist(centroid1, centroid2, upto) ==
    IF upto = 0 THEN Fin(0)
    ELSE LET diff == XSub(centroid1[upto], centroid2[upto])
         IN  XAdd(SqDist(centroid1, centroid2, upto - 1), XMul(diff, diff))

Stackable(cluster1, cluster2) ==
    Len(compute_centroid(cluster1)) = Len(compute_centroid(cluster2))

compute_dissimilarity(cluster1, cluster2) ==
    LET centroid1 == compute_centroid(cluster1)
        centroid2 == compute_centroid(cluster2)
        size1 == Len(cluster1)
        size2 == Len(cluster2)
    IN  XMul(Rat(2 * size1 * size2, size1 + size2),
             SqDist(centroid1, centroid2, Len(centroid1)))

--------------------------------------------------------------------------
(* Python list indexing: a negative index counts from the end *)

PyIndexOK(idx, len) == -len <= idx /\ idx < len

PyPos(idx, len) == (IF idx < 0 THEN len + idx ELSE idx) + 1

(* del clusters[b] without the concatenation *)
MergedClustersDrop(cl, a, b) ==
    LET pb == PyPos(b, Len(cl))
    IN  [q \in 1..(Len(cl) - 1) |-> IF q < pb THEN cl[q] ELSE cl[q + 1]]

(* clusters[a] = clusters[b] + clusters[a] *)
MergedClustersSwapped(cl, a, b) ==
    LET pa == PyPos(a, Len(cl))
        pb == PyPos(b, Len(cl))
        assigned == [cl EXCEPT ![pa] = cl[pb] \o cl[pa]]
    IN  [q \in 1..(Len(cl) - 1) |-> IF q < pb THEN assigned[q] ELSE assigned[q + 1]]

(* clusters[a] = clusters[a] + clusters[b]; del clusters[b] *)
MergedClusters(cl, a, b) ==
    LET pa == PyPos(a, Len(cl))
        pb == PyPos(b, Len(cl))
        assigned == [cl EXCEPT ![pa] = cl[pa] \o cl[pb]]
    IN  [q \in 1..(Len(cl) - 1) |-> IF q < pb THEN assigned[q] ELSE assigned[q + 1]]

(* while len(clusters) >= n_reduced *)
ContinueInclusive(cl, target) == Len(cl) >= target

(* while len(clusters) > n_reduced *)
Continue(cl, target) == Len(cl) > target

(* if dissimilarity > min_dissimilarity, the first pair always taken *)
BetterMax(dissimilarity, best) == best = PInf \/ XLess(best, dissimilarity)

(* if dissimilarity <= min_dissimilarity *)
BetterOrEqual(dissimilarity, best) ==
    XLess(dissimilarity, best) \/ (IsFinite(dissimilarity) /\ dissimilarity = best)

(* if dissimilarity < min_dissimilarity *)
Better(dissimilarity, best) == XLess(dissimilarity, best)

Centroids(cl) == [q \in 1..Len(cl) |-> compute_centroid(cl[q])]

Weights(cl) == [q \in 1..Len(cl) |-> Len(cl[q])]

RaggedTable(table) == \E q, r \in 1..Len(table) : Len(table[q]) # Len(table[r])

--------------------------------------------------------------------------
(* The steps of hierarchical_chronological_clustering *)

Call ==
    /\ pc = "call"
    /\ n' = Len(data)
    /\ clusters' = [p \in 1..Len(data) |-> <<p - 1>>]
    /\ pc' = "while"
    /\ UNCHANGED <<data, n_reduced, min_dissimilarity, merge_idx, i,
                   cluster_centroids, cluster_weights, err, merges, calls,
                   legacy_numpy, prev>>
    /\ UNCHANGED <<poolVars, eqVars>>

WhileEnter ==
    /\ pc = "while"
    /\ Continue(clusters, n_reduced)
    /\ min_dissimilarity' = PInf
    /\ merge_idx' = <<-1, -1>>
    /\ i' = 0
    /\ pc' = "for"
    /\ UNCHANGED <<data, n_reduced, n, clusters, cluster_centroids,
                   cluster_weights, err, merges, calls,
                   legacy_numpy, prev>>
    /\ UNCHANGED <<poolVars, eqVars>>

WhileExit ==
    /\ pc = "while"
    /\ ~Continue(clusters, n_reduced)
    /\ pc' = "final"
    /\ UNCHANGED <<data, n_reduced, n, clusters, min_dissimilarity, merge_idx, i,
                   cluster_centroids, cluster_weights, err, merges, calls,
                   legacy_numpy, prev>>
    /\ UNCHANGED <<poolVars, eqVars>>

(* the minimum is reduced by a race: on a tie either pair may win *)
ForStepRace ==
    /\ pc = "for"
    /\ i < Len(clusters) - 1
    /\ Stackable(clusters[i + 1], clusters[i + 2])
    /\ LET dissimilarity == compute_dissimilarity(clusters[i + 1], clusters[i + 2])
       IN  \/ /\ ~XLess(min_dissimilarity, dissimilarity)
              /\ min_dissimilarity' = dissimilarity
              /\ merge_idx' = <<i, i + 1>>
           \/ /\ ~XLess(dissimilarity, min_dissimilarity)
              /\ UNCHANGED <<min_dissimilarity, merge_idx>>
    /\ i' = i + 1
    /\ UNCHANGED <<data, n_reduced, pc, n, clusters, cluster_centroids,
                   cluster_weights, err, merges, calls,
                   legacy_numpy, prev>>
    /\ UNCHANGED <<poolVars, eqVars>>

ForStep ==
    /\ pc = "for"
    /\ i < Len(clusters) - 1
    /\ Stackable(clusters[i + 1], clusters[i + 2])
    /\ LET dissimilarity == compute_dissimilarity(clusters[i + 1], clusters[i + 2])
       IN  IF Better(dissimilarity, min_dissimilarity)
           THEN /\ min_dissimilarity' = dissimilarity
                /\ merge_idx' = <<i, i + 1>>
           ELSE UNCHANGED <<min_dissimilarity, merge_idx>>
    /\ i' = i + 1
    /\ UNCHANGED <<data, n_reduced, pc, n, clusters, cluster_centroids,
                   cluster_weights, err, merges, calls,
                   legacy_numpy, prev>>
    /\ UNCHANGED <<poolVars, eqVars>>

(* np.vstack of two centroids of different length raises *)
ForRaise ==
    /\ pc = "for"
    /\ i < Len(clusters) - 1
    /\ ~Stackable(clusters[i + 1], clusters[i + 2])
    /\ err' = "ValueError"
    /\ pc' = "error"
    /\ UNCHANGED <<data, n_reduced, n, clusters, min_dissimilarity, merge_idx, i,
                   cluster_centroids, cluster_weights, merges, calls,
                   legacy_numpy, prev>>
    /\ UNCHANGED <<poolVars, eqVars>>

ForEnd ==
    /\ pc = "for"
    /\ i >= Len(clusters) - 1
    /\ pc' = "merge"
    /\ UNCHANGED <<data, n_reduced, n, clusters, min_dissimilarity, merge_idx, i,
                   cluster_centroids, cluster_weights, err, merges, calls,
                   legacy_numpy, prev>>
    /\ UNCHANGED <<poolVars, eqVars>>

Merge ==
    /\ pc = "merge"
    /\ PyIndexOK(merge_idx[1], Len(clusters))
    /\ PyIndexOK(merge_idx[2], Len(clusters))
    /\ clusters' = MergedClusters(clusters, merge_idx[1], merge_idx[2])
    /\ merges' = Append(merges, merge_idx)
    /\ pc' = "while"
    /\ UNCHANGED <<data, n_reduced, n, min_dissimilarity, merge_idx, i,
                   cluster_centroids, cluster_weights, err, calls,
                   legacy_numpy, prev>>
    /\ UNCHANGED <<poolVars, eqVars>>

(* clusters[i] on an index outside the list raises *)
MergeRaise ==
    /\ pc = "merge"
    /\ ~(PyIndexOK(merge_idx[1], Len(clusters)) /\ PyIndexOK(merge_idx[2], Len(clusters)))
    /\ err' = "IndexError"
    /\ pc' = "error"
    /\ UNCHANGED <<data, n_reduced, n, clusters, min_dissimilarity, merge_idx, i,
                   cluster_centroids, cluster_weights, merges, calls,
                   legacy_numpy, prev>>
    /\ UNCHANGED <<poolVars, eqVars>>

(* The centroids written back into the rows of the caller's array *)
ReturnInPlace ==
    /\ pc = "final"
    /\ ~RaggedTable(Centroids(clusters))
    /\ cluster_centroids' = Centroids(clusters)
    /\ cluster_weights' = Weights(clusters)
    /\ data' = [p \in 1..Len(data) |->
                  IF \E q \in 1..Len(clusters) : clusters[q][1] = p - 1
                  THEN compute_centroid(
                         clusters[CHOOSE q \in 1..Len(clusters) : clusters[q][1] = p - 1])
                  ELSE data[p]]
    /\ pc' = "done"
    /\ UNCHANGED <<n_reduced, n, clusters, min_dissimilarity, merge_idx, i,
                   err, merges, calls, legacy_numpy, prev>>
    /\ UNCHANGED <<poolVars, eqVars>>

Return ==
    /\ pc = "final"
    /\ ~RaggedTable(Centroids(clusters))
    /\ cluster_centroids' = Centroids(clusters)
    /\ cluster_weights' = Weights(clusters)
    /\ pc' = "done"
    /\ UNCHANGED <<data, n_reduced, n, clusters, min_dissimilarity, merge_idx, i,
                   err, merges, calls,
                   legacy_numpy, prev>>
    /\ UNCHANGED <<poolVars, eqVars>>

(* np.array over centroids of different lengths: numpy >= 1.24 raises *)
ReturnRaise ==
    /\ pc = "final"
    /\ RaggedTable(Centroids(clusters))
    /\ ~legacy_numpy
    /\ err' = "ValueError"
    /\ pc' = "error"
    /\ UNCHANGED <<data, n_reduced, n, clusters, min_dissimilarity, merge_idx, i,
                   cluster_centroids, cluster_weights, merges, calls,
                   legacy_numpy, prev>>
    /\ UNCHANGED <<poolVars, eqVars>>

(* ... and an older numpy builds an object array and only warns *)
ReturnObjectArray ==
    /\ pc = "final"
    /\ RaggedTable(Centroids(clusters))
    /\ legacy_numpy
    /\ cluster_centroids' = Centroids(clusters)
    /\ cluster_weights' = Weights(clusters)
    /\ pc' = "done"
    /\ UNCHANGED <<data, n_reduced, n, clusters, min_dissimilarity, merge_idx, i,
                   err, merges, calls,
                   legacy_numpy, prev>>
    /\ UNCHANGED <<poolVars, eqVars>>

(* The caller invokes the function again, on the same data and on the same *)
(* or on a neighbouring n_reduced                                          *)
Reinvoke ==
    /\ pc \in {"done", "error"}
    /\ calls + 1 \in CallIds
    /\ prev' = [pc |-> pc, n_reduced |-> n_reduced, merges |-> merges,
                cluster_centroids |-> cluster_centroids,
                cluster_weights |-> cluster_weights, err |-> err]
    /\ n_reduced' \in {n_reduced - 1, n_reduced, n_reduced + 1} \cap Targets
    /\ calls' = calls + 1
    /\ pc' = "call"
    /\ n' = 0
    /\ clusters' = <<>>
    /\ min_dissimilarity' = PInf
    /\ merge_idx' = <<-1, -1>>
    /\ i' = 0
    /\ cluster_centroids' = <<>>
    /\ cluster_weights' = <<>>
    /\ err' = "none"
    /\ merges' = <<>>
    /\ UNCHANGED <<data, legacy_numpy>>
    /\ UNCHANGED <<poolVars, eqVars>>

Next ==
    \/ Call
    \/ WhileEnter
    \/ WhileExit
    \/ ForStep
    \/ ForRaise
    \/ ForEnd
    \/ Merge
    \/ MergeRaise
    \/ Return
    \/ ReturnRaise
    \/ ReturnObjectArray
    \/ Reinvoke

Spec == Init /\ [][Next]_vars

--------------------------------------------------------------------------
(* process_scenarios run by multiprocessing.Pool: pool.map hands each      *)
(* scenario to run_scenario in a worker process.  A worker process has its *)
(* own memory; the processes share the file system.  The result of the     *)
(* clustering call of scenario s is a function of the rows of s alone and  *)
(* is carried as a token naming them.                                      *)

CsvKinds == <<"load_profile_clustered", "capacity_factors_gen_clustered",
              "weights_clustered">>

(* os.path.join(folder, '<kind>_%d_%s_.csv' % (n_reduced, scenarios[0])) *)
CsvName(kind, s) == <<kind, DefaultNReduced, s>>

(* the table written to the file of a kind by the task of scenario s *)
CsvTable(kind, s) ==
    IF kind = "weights_clustered"
    THEN clustered_data[s].weights
    ELSE <<kind, clustered_data[s].cluster>>

InitPool ==
    /\ ClusterIdle
    /\ EqIdle
    /\ wpc = [s \in ScenarioIds |-> "queued"]
    /\ clustered_data = [s \in ScenarioIds |-> <<>>]
    /\ folder \in BOOLEAN
    /\ files = {}

(* run_scenario(scenario): process_scenarios([scenario]) starts *)
RunScenario(s) ==
    /\ wpc[s] = "queued"
    /\ wpc' = [wpc EXCEPT ![s] = "load"]
    /\ UNCHANGED <<clustered_data, folder, files, clusterVars, eqVars>>

(* the two read_csv and the concat *)
LoadData(s) ==
    /\ wpc[s] = "load"
    /\ wpc' = [wpc EXCEPT ![s] = "cluster"]
    /\ UNCHANGED <<clustered_data, folder, files, clusterVars, eqVars>>

(* for s in scenarios: clustered_data[s] = {"cluster": ..., "weights": ...} *)
ClusterScenario(s) ==
    /\ wpc[s] = "cluster"
    /\ clustered_data' = [clustered_data EXCEPT ![s] =
           [cluster |-> <<"cluster_centroids", s, DefaultNReduced>>,
            weights |-> <<"cluster_weights", s, DefaultNReduced>>]]
    /\ wpc' = [wpc EXCEPT ![s] = "exists"]
    /\ UNCHANGED <<folder, files, clusterVars, eqVars>>

(* if not os.path.exists(folder) *)
FolderExists(s) ==
    /\ wpc[s] = "exists"
    /\ wpc' = [wpc EXCEPT ![s] = IF folder THEN "csv1" ELSE "makedirs"]
    /\ UNCHANGED <<clustered_data, folder, files, clusterVars, eqVars>>

(* os.makedirs(folder): FileExistsError when the folder is there by now *)
MakeDirs(s) ==
    /\ wpc[s] = "makedirs"
    /\ IF folder
       THEN /\ wpc' = [wpc EXCEPT ![s] = "error"]
            /\ UNCHANGED folder
       ELSE /\ wpc' = [wpc EXCEPT ![s] = "csv1"]
            /\ folder' = TRUE
    /\ UNCHANGED <<clustered_data, files, clusterVars, eqVars>>

(* the three to_csv, each replacing the file of its name *)
ToCsv(s) ==
    /\ wpc[s] \in {"csv1", "csv2", "csv3"}
    /\ LET k == CASE wpc[s] = "csv1" -> 1 [] wpc[s] = "csv2" -> 2 [] OTHER -> 3
           name == CsvName(CsvKinds[k], s)
       IN  /\ files' = {f \in files : f.name # name}
                       \cup {[name |-> name, table |-> CsvTable(CsvKinds[k], s)]}
           /\ wpc' = [wpc EXCEPT ![s] =
                        CASE k = 1 -> "csv2" [] k = 2 -> "csv3" [] OTHER -> "done"]
    /\ UNCHANGED <<clustered_data, folder, clusterVars, eqVars>>

NextPool ==
    \E s \in ScenarioIds :
        \/ RunScenario(s)
        \/ LoadData(s)
        \/ ClusterScenario(s)
        \/ FolderExists(s)
        \/ MakeDirs(s)
        \/ ToCsv(s)

SpecPool == InitPool /\ [][NextPool]_vars

--------------------------------------------------------------------------
(* equalize_annual_energy_with_peak_one (same_sum_of_demand.py).  The      *)
(* frame is kept per year: df[y] lists the values of the hours of year y.  *)
(* The values of the model are fractions with small denominators, so that  *)
(* |x| < tol (tol = 1e-9, 1e-6, 1e-12) holds exactly when x = 0; the       *)
(* comparisons against a tolerance are written that way.                   *)

EqVals == {Fin(0), Rat(1, 2), Fin(1)}

(* the values of a year in non-increasing order: sum, count, max and the   *)
(* elementwise transform do not depend on the order of the rows            *)
Profiles ==
    UNION {{p \in [1..h -> EqVals] : \A k \in 1..(h - 1) : ~XLess(p[k], p[k + 1])} :
              h \in HourCounts}

Frames == UNION {[1..m -> Profiles] : m \in 1..MaxYears}

TargetChoices == {None, Fin(1), Fin(3)}

XDiv(a, b) == Rat(Sgn(b.n) * a.n * b.d, a.d * Abs(b.n))

RECURSIVE SumVals(_)
SumVals(sq) == IF sq = <<>> THEN Fin(0) ELSE XAdd(Head(sq), SumVals(Tail(sq)))

RECURSIVE MaxVals(_)
MaxVals(sq) ==
    IF Len(sq) = 1 THEN sq[1]
    ELSE LET rest == MaxVals(Tail(sq))
         IN  IF XLess(Head(sq), rest) THEN rest ELSE Head(sq)

(* abs(x) < tol *)
WithinTol(x) == x = Fin(0)

(* q < -1e-12 *)
Negative(q) == XLess(q, Fin(0))

(* q > 1 + 1e-12 *)
AboveOne(q) == XLess(Fin(1), q)

(* b = 1.0 - a *)
Offset(a) == XSub(Fin(1), a)

InitEq ==
    /\ ClusterIdle
    /\ PoolIdle
    /\ epc = "call"
    /\ df \in Frames
    /\ target_annual_sum \in TargetChoices
    /\ per_year = <<>>
    /\ S_star = NaN
    /\ yi = 0
    /\ df_out = <<>>

(* df.groupby(year_col).agg(annual_sum, n_hours, peak) *)
EqAggregate ==
    /\ epc = "call"
    /\ per_year' = [y \in 1..Len(df) |->
           [annual_sum |-> SumVals(df[y]), n_hours |-> Len(df[y]),
            peak |-> MaxVals(df[y]), a |-> NaN, b |-> NaN,
            feasible |-> TRUE, reason |-> {}]]
    /\ epc' = "target"
    /\ UNCHANGED <<df, target_annual_sum, S_star, yi, df_out, clusterVars, poolVars>>

(* S* is the mean of the annual sums, or the target given *)
EqTarget ==
    /\ epc = "target"
    /\ S_star' = IF target_annual_sum = None
                 THEN XMul(SumVals([y \in 1..Len(df) |-> per_year[y].annual_sum]),
                           Rat(1, Len(df)))
                 ELSE target_annual_sum
    /\ yi' = 1
    /\ epc' = "params"
    /\ UNCHANGED <<df, target_annual_sum, per_year, df_out, clusterVars, poolVars>>

(* one pass of: for y, row in per_year.iterrows() *)
EqParams ==
    /\ epc = "params"
    /\ yi <= Len(df)
    /\ LET S == per_year[yi].annual_sum
           hours == Fin(per_year[yi].n_hours)
           peak == per_year[yi].peak
           noted == IF ~WithinTol(XSub(peak, Fin(1))) THEN {"peak not 1"} ELSE {}
           denom == XSub(S, hours)
           flat == WithinTol(denom)
           stuck == flat /\ ~WithinTol(XSub(S_star, hours))
           a == IF flat THEN Fin(1) ELSE XDiv(XSub(S_star, hours), denom)
           b == IF flat THEN Fin(0) ELSE Offset(a)
       IN  per_year' = [per_year EXCEPT ![yi] =
               [@ EXCEPT !.a = a, !.b = b,
                         !.feasible = ~stuck,
                         !.reason = noted \cup (IF stuck THEN {"flat at 1"} ELSE {})]]
    /\ yi' = yi + 1
    /\ UNCHANGED <<epc, df, target_annual_sum, S_star, df_out, clusterVars, poolVars>>

(* df[out_col] = df[value_col] *)
EqInitOut ==
    /\ epc = "params"
    /\ yi > Len(df)
    /\ df_out' = df
    /\ yi' = 1
    /\ epc' = "apply"
    /\ UNCHANGED <<df, target_annual_sum, per_year, S_star, clusterVars, poolVars>>

(* _apply_group on the rows of one year *)
EqApply ==
    /\ epc = "apply"
    /\ yi <= Len(df)
    /\ LET a == per_year[yi].a
           b == per_year[yi].b
           q == [k \in 1..Len(df[yi]) |-> XAdd(XMul(a, df[yi][k]), b)]
           negatives == \E k \in 1..Len(q) : Negative(q[k])
           clipped == [k \in 1..Len(q) |->
                          IF negatives /\ XLess(q[k], Fin(0)) THEN Fin(0) ELSE q[k]]
           capped == [k \in 1..Len(q) |->
                          IF AboveOne(clipped[k]) THEN Fin(1) ELSE clipped[k]]
       IN  /\ df_out' = [df_out EXCEPT ![yi] = capped]
           /\ per_year' = IF negatives
                          THEN [per_year EXCEPT ![yi] =
                                   [@ EXCEPT !.feasible = FALSE,
                                             !.reason = @ \cup {"negatives clipped"}]]
                          ELSE per_year
    /\ yi' = yi + 1
    /\ UNCHANGED <<epc, df, target_annual_sum, S_star, clusterVars, poolVars>>

(* the verification table and the return *)
EqReturn ==
    /\ epc = "apply"
    /\ yi > Len(df)
    /\ epc' = "done"
    /\ UNCHANGED <<df, target_annual_sum, per_year, S_star, yi, df_out,
                   clusterVars, poolVars>>

NextEq ==
    \/ EqAggregate
    \/ EqTarget
    \/ EqParams
    \/ EqInitOut
    \/ EqApply
    \/ EqReturn

SpecEq == InitEq /\ [][NextEq]_vars

--------------------------------------------------------------------------
(* Vocabulary of the properties *)

ValidTarget == 1 <= n_reduced /\ n_reduced <= Len(data)

AllFinite == \A p \in 1..Len(data) : \A c \in 1..Len(data[p]) : IsFinite(data[p][c])

ValidInput == ValidTarget /\ Rectangular /\ AllFinite

Live == pc \in {"while", "for", "merge", "final", "done"}

Terminal == pc \in {"done", "error"}

RECURSIVE Flatten(_)
Flatten(cl) == IF cl = <<>> THEN <<>> ELSE Head(cl) \o Flatten(Tail(cl))

RECURSIVE SumSeq(_)
SumSeq(sq) == IF sq = <<>> THEN 0 ELSE Head(sq) + SumSeq(Tail(sq))

Iota(len) == [p \in 1..len |-> p - 1]

RECURSIVE TotalCol(_, _)
TotalCol(c, upto) ==
    IF upto = 0 THEN Fin(0) ELSE XAdd(TotalCol(c, upto - 1), data[upto][c])

OverallMean ==
    [c \in 1..Len(data[1]) |-> XMul(TotalCol(c, Len(data)), Rat(1, Len(data)))]

IsPrefix(sq, of) == Len(sq) <= Len(of) /\ \A q \in 1..Len(sq) : sq[q] = of[q]

--------------------------------------------------------------------------
(* C1: weight conservation.  For every input and 1 <= n_reduced <= n the   *)
(* sizes of the clusters sum to n in every state of the merge loop, and    *)
(* the returned cluster_weights sum to n.                                  *)
C1_WeightConservation ==
    ValidTarget =>
        /\ Live => SumSeq(Weights(clusters)) = Len(data)
        /\ pc = "done" => SumSeq(cluster_weights) = Len(data)

(* The same on finite input, where no scan leaves merge_idx at (-1, -1).   *)
WeightConservationOnFinite == AllFinite => C1_WeightConservation

(* C2: cardinality.  For 1 <= n_reduced <= n the call returns exactly      *)
(* n_reduced centroids and exactly n_reduced weights.                      *)
C2_Cardinality ==
    (ValidTarget /\ pc = "done") =>
        /\ Len(cluster_centroids) = n_reduced
        /\ Len(cluster_weights) = n_reduced

C2_Witness ==
    /\ ValidInput
    /\ pc = "done"
    /\ Len(data) = 4
    /\ n_reduced = 2
    /\ Len(cluster_centroids) = 2
    /\ Len(cluster_weights) = 2

(* C3: partition invariant.  For 1 <= n_reduced <= n, in every state of    *)
(* the merge loop the clusters are non-empty runs of consecutive period    *)
(* indices which, read in sequence order, enumerate 0..n-1 exactly once    *)
(* in increasing order; every returned weight is a positive integer.       *)
C3_Partition ==
    ValidTarget =>
        /\ Live => /\ \A q \in 1..Len(clusters) : Len(clusters[q]) >= 1
                   /\ Flatten(clusters) = Iota(Len(data))
        /\ pc = "done" => \A q \in 1..Len(cluster_weights) : cluster_weights[q] >= 1

(* The same on finite input.                                               *)
PartitionOnFinite == AllFinite => C3_Partition

(* C4: a call with n_reduced < 1 or n_reduced > n (on otherwise proper     *)
(* input) ends in an InvalidArgument error: it returns no table and ends   *)
(* in no other failure.                                                     *)
C4_InvalidTargetRejected ==
    (Len(data) >= 1 /\ Rectangular /\ AllFinite /\ ~ValidTarget /\ Terminal) =>
        (pc = "error" /\ err = "InvalidArgument")

(* C5: a call on an empty periods sequence, or on vectors that do not all  *)
(* have the same length, ends in a DimensionMismatch error before any      *)
(* merge.                                                                  *)
C5_DimensionMismatchRejected ==
    ((Len(data) = 0 \/ ~Rectangular) /\ Terminal) =>
        (pc = "error" /\ err = "DimensionMismatch" /\ merges = <<>>)

(* C6: a call in which some feature value is NaN or infinite ends in an    *)
(* InvalidInput error and returns no table.                                *)
C6_NonFiniteRejected ==
    (ValidTarget /\ Rectangular /\ ~AllFinite /\ Terminal) =>
        (pc = "error" /\ err = "InvalidInput")

(* C7: fail fast.  A call that ends in an error has performed no merge     *)
(* and has built no table.                                                 *)
C7_FailFast ==
    pc = "error" =>
        (merges = <<>> /\ cluster_centroids = <<>> /\ cluster_weights = <<>>)

(* C8: identity.  With n_reduced = n no merge is performed, and a          *)
(* returning call returns one cluster per period, in order, whose centroid *)
(* is the input vector itself and whose weight is 1.                       *)
C8_Identity ==
    (n_reduced = Len(data)) =>
        /\ merges = <<>>
        /\ pc \notin {"for", "merge"}
        /\ pc = "done" =>
              /\ Len(cluster_centroids) = Len(data)
              /\ Len(cluster_weights) = Len(data)
              /\ \A p \in 1..Len(data) :
                    /\ cluster_centroids[p] = data[p]
                    /\ cluster_weights[p] = 1
                    /\ clusters[p] = <<p - 1>>

C8_Witness ==
    /\ pc = "done"
    /\ n_reduced = Len(data)
    /\ Len(data) = 3
    /\ Len(data[1]) = 2
    /\ data[1] # data[2]
    /\ cluster_weights = <<1, 1, 1>>
    /\ cluster_centroids = data

(* C9: full collapse.  With n_reduced = 1 on n >= 1 periods the call       *)
(* returns a single cluster holding the periods 0..n-1, whose centroid is  *)
(* the mean of all input vectors and whose weight is n, whichever pairs    *)
(* were merged on the way.                                                 *)
C9_FullCollapse ==
    (n_reduced = 1 /\ Len(data) >= 1 /\ pc = "done") =>
        /\ clusters = <<Iota(Len(data))>>
        /\ cluster_weights = <<Len(data)>>
        /\ cluster_centroids = <<OverallMean>>

(* The same on finite input.                                               *)
FullCollapseOnFinite == AllFinite => C9_FullCollapse

(* C10: determinism.  A second invocation on the same (data, n_reduced)    *)
(* merges the same pairs in the same order as the first one and ends the   *)
(* same way, with identical centroids and weights.                         *)
C10_Determinism ==
    (prev.pc # "none" /\ prev.n_reduced = n_reduced) =>
        /\ IsPrefix(merges, prev.merges)
        /\ Terminal =>
              /\ pc = prev.pc
              /\ err = prev.err
              /\ merges = prev.merges
              /\ cluster_centroids = prev.cluster_centroids
              /\ cluster_weights = prev.cluster_weights

C10_Witness ==
    /\ prev.pc = "done"
    /\ prev.n_reduced = n_reduced
    /\ pc = "done"
    /\ n_reduced = 1
    /\ Len(data) = 4
    /\ \A p \in 1..Len(data) : data[p] = data[1]
    /\ merges = <<<<0, 1>>, <<0, 1>>, <<0, 1>>>>
    /\ merges = prev.merges
    /\ cluster_centroids = prev.cluster_centroids
    /\ cluster_weights = prev.cluster_weights

(* C11: termination.  On rectangular data with 1 <= n_reduced <= n the     *)
(* merge loop ends and the call returns; it has then made exactly          *)
(* n - n_reduced merges; the list shrinks by one per merge, the loop body  *)
(* only runs while the list is longer than n_reduced, and the loop is left *)
(* as soon as its length equals n_reduced.                                 *)
LoopCount ==
    /\ Len(clusters) + Len(merges) = Len(data)
    /\ Len(clusters) >= n_reduced
    /\ pc \in {"for", "merge"} => Len(clusters) > n_reduced
    /\ pc \in {"final", "done"} =>
          /\ Len(clusters) = n_reduced
          /\ Len(merges) = Len(data) - n_reduced

(* A variant of the call: it falls with every step until the return *)
Rank ==
    LET base == Len(data) + 3
    IN  CASE pc = "call"  -> (Len(data) + 1) * base
          [] pc = "while" -> Len(clusters) * base + base - 1
          [] pc = "for"   -> Len(clusters) * base + base - 2 - i
          [] pc = "merge" -> Len(clusters) * base
          [] pc = "final" -> Len(clusters) * base + 1
          [] OTHER        -> Len(clusters) * base

(* The guards of the steps of a call: the statement reached can execute *)
CanStep ==
    \/ pc \in {"call", "while", "final"}
    \/ pc = "for" /\ i >= 0 /\ i <= Len(clusters) - 1
    \/ pc = "merge" /\ PyIndexOK(merge_idx[1], Len(clusters))
                    /\ PyIndexOK(merge_idx[2], Len(clusters))

C11_Termination ==
    /\ []((ValidTarget /\ Rectangular /\ Live) => LoopCount)
    /\ []((ValidTarget /\ Rectangular /\ pc # "done") => CanStep)
    /\ [][(ValidTarget /\ Rectangular /\ pc # "done") => (Rank' < Rank /\ Rank' >= 0)]_vars

C11_Witness ==
    /\ ValidInput
    /\ pc = "done"
    /\ Len(data) = 4
    /\ n_reduced = 1
    /\ Len(merges) = 3

--------------------------------------------------------------------------
(* C12: concrete scenario.  For data [[0],[1],[2],[10]] and n_reduced = 2  *)
(* the first merge is that of periods 0 and 1, into the cluster {0,1} of   *)
(* centroid 0.5 and size 2, and the call returns two clusters whose        *)
(* weights sum to 4.                                                       *)
C12_Scenario ==
    (data = Scenario /\ n_reduced = 2) =>
        /\ (Live /\ Len(merges) >= 1) => merges[1] = <<0, 1>>
        /\ (Live /\ Len(merges) = 1) =>
              /\ clusters = << <<0, 1>>, <<2>>, <<3>> >>
              /\ compute_centroid(clusters[1]) = << Rat(1, 2) >>
              /\ Weights(clusters)[1] = 2
        /\ pc = "done" =>
              /\ Len(cluster_centroids) = 2
              /\ Len(cluster_weights) = 2
              /\ SumSeq(cluster_weights) = 4

C12_Witness ==
    /\ data = Scenario /\ n_reduced = 2 /\ pc = "done"
    /\ merges = << <<0, 1>>, <<0, 1>> >>
    /\ cluster_centroids = << <<Fin(1)>>, <<Fin(10)>> >>
    /\ cluster_weights = <<3, 1>>

--------------------------------------------------------------------------
(* The function of (data, n_reduced) that a call computes, written as one  *)
(* recursion over the cluster list with no state kept between calls        *)

RECURSIVE ScanFrom(_, _, _, _)
ScanFrom(cl, pos, best, pair) ==
    IF pos >= Len(cl) - 1 THEN pair
    ELSE LET dissimilarity == compute_dissimilarity(cl[pos + 1], cl[pos + 2])
         IN  IF Better(dissimilarity, best)
             THEN ScanFrom(cl, pos + 1, dissimilarity, <<pos, pos + 1>>)
             ELSE ScanFrom(cl, pos + 1, best, pair)

RECURSIVE Reduce(_, _)
Reduce(cl, target) ==
    IF Continue(cl, target)
    THEN LET pair == ScanFrom(cl, 0, PInf, <<-1, -1>>)
         IN  Reduce(MergedClusters(cl, pair[1], pair[2]), target)
    ELSE cl

Singletons == [p \in 1..Len(data) |-> <<p - 1>>]

(* C13: purity.  No step of a call changes the caller's data, and a call   *)
(* keeps nothing from an earlier one: whatever was invoked before, a call  *)
(* on rectangular data with n_reduced >= 0 returns what the function of    *)
(* its own (data, n_reduced) gives.                                        *)
C13_Purity ==
    /\ [][data' = data]_vars
    /\ []((Rectangular /\ n_reduced >= 0) =>
            /\ pc # "error"
            /\ pc = "done" =>
                  /\ clusters = Reduce(Singletons, n_reduced)
                  /\ cluster_centroids = Centroids(Reduce(Singletons, n_reduced))
                  /\ cluster_weights = Weights(Reduce(Singletons, n_reduced)))

C13_Witness ==
    /\ calls = 2 /\ prev.pc = "done" /\ pc = "done"
    /\ Rectangular /\ Len(data) = 4
    /\ prev.n_reduced = 3 /\ n_reduced = 2
    /\ Len(prev.merges) = 1 /\ Len(merges) = 2
    /\ cluster_weights # prev.cluster_weights

--------------------------------------------------------------------------
(* What the task of scenario s leaves in the folder when it runs alone *)
AloneFiles(s) ==
    {[name |-> CsvName(CsvKinds[k], s),
      table |-> IF k = 3 THEN <<"cluster_weights", s, DefaultNReduced>>
                ELSE <<CsvKinds[k], <<"cluster_centroids", s, DefaultNReduced>> >>] :
        k \in 1..3}

(* A finished task has its own three files in the folder, whatever the     *)
(* other tasks did meanwhile: the file names carry the scenario            *)
OwnOutputKept ==
    \A s \in ScenarioIds : wpc[s] = "done" => AloneFiles(s) \subseteq files

(* C14: independent invocations.  Under every interleaving of the tasks    *)
(* of the pool no task ends in an error, and a task that has finished has  *)
(* produced its own output, the same as when it runs alone.                *)
C14_PoolIndependence ==
    \A s \in ScenarioIds :
        /\ wpc[s] # "error"
        /\ wpc[s] = "done" => AloneFiles(s) \subseteq files

--------------------------------------------------------------------------
(* The years the function itself reports as equalized: peak 1 on input,    *)
(* feasible in the returned diagnostics, and a target of at most n_hours   *)
Equalizable(y) ==
    /\ per_year[y].peak = Fin(1)
    /\ per_year[y].feasible
    /\ ~XLess(Fin(per_year[y].n_hours), S_star)

Equalized(y) ==
    /\ SumVals(df_out[y]) = S_star
    /\ MaxVals(df_out[y]) = Fin(1)

EqualizedWhereFeasible ==
    epc = "done" => \A y \in 1..Len(df) : Equalizable(y) => Equalized(y)

(* C15: equalize_annual_energy_with_peak_one.  In the frame returned,      *)
(* every year (of peak 1 on input) has the annual sum S*, the mean of the  *)
(* annual sums when target_annual_sum is None, and still has peak 1.       *)
C15_EqualizedEnergy ==
    epc = "done" =>
        /\ target_annual_sum = None =>
              S_star = XMul(SumVals([y \in 1..Len(df) |-> SumVals(df[y])]),
                            Rat(1, Len(df)))
        /\ \A y \in 1..Len(df) : MaxVals(df[y]) = Fin(1) => Equalized(y)

--------------------------------------------------------------------------
(* Vocabulary of the merge step, written from the definitions of the       *)
(* method and not from the code                                            *)

(* the step that applies a merge *)
MergeStep == pc = "merge" /\ pc' = "while"

(* the componentwise mean of the rows of the member periods *)
RECURSIVE RowTotal(_, _)
RowTotal(members, c) ==
    IF members = <<>> THEN Fin(0)
    ELSE XAdd(data[Head(members) + 1][c], RowTotal(Tail(members), c))

MemberMean(members) ==
    [c \in 1..Len(data[1]) |-> XMul(RowTotal(members, c), Rat(1, Len(members)))]

RECURSIVE SqEuclid(_, _)
SqEuclid(u, v) ==
    IF u = <<>> THEN Fin(0)
    ELSE XAdd(XMul(XSub(Head(u), Head(v)), XSub(Head(u), Head(v))),
              SqEuclid(Tail(u), Tail(v)))

(* D(I,J) = (2 |I| |J| / (|I| + |J|)) * || centroid(I) - centroid(J) ||^2 *)
WardScore(I, J) ==
    XMul(Rat(2 * Len(I) * Len(J), Len(I) + Len(J)),
         SqEuclid(MemberMean(I), MemberMean(J)))

(* the score of the adjacent pair at list positions k, k + 1 (0-based) *)
PairScore(k) == WardScore(clusters[k + 1], clusters[k + 2])

PairStarts == 0..(Len(clusters) - 2)

XLeq(a, b) == XLess(a, b) \/ (a.k # "nan" /\ a = b)

(* clusters' is clusters with the entries k, k + 1 replaced by their       *)
(* concatenation at k and all other entries as they were, in order         *)
AdjacentMergeAt(k) ==
    /\ Len(clusters') = Len(clusters) - 1
    /\ clusters'[k + 1] = clusters[k + 1] \o clusters[k + 2]
    /\ \A q \in 1..k : clusters'[q] = clusters[q]
    /\ \A q \in (k + 2)..Len(clusters') : clusters'[q] = clusters[q + 1]

FrameOfMerge ==
    /\ merge_idx[1] \in PairStarts
    /\ merge_idx[2] = merge_idx[1] + 1
    /\ AdjacentMergeAt(merge_idx[1])

(* C16: merge step frame.  Each merge combines the clusters at two         *)
(* adjacent positions i, i + 1 of the list, puts the merged cluster at i,  *)
(* shortens the list by exactly one and leaves every other cluster and     *)
(* their order as they were.                                               *)
C16_MergeFrame == [][(ValidTarget /\ MergeStep) => FrameOfMerge]_vars

(* The frame on finite input *)
MergeFrameOnFinite == [][(ValidInput /\ MergeStep) => FrameOfMerge]_vars

(* the pair about to be merged is adjacent and no adjacent pair scores less *)
MinimumChosen ==
    /\ merge_idx[1] \in PairStarts
    /\ merge_idx[2] = merge_idx[1] + 1
    /\ \A j \in PairStarts : XLeq(PairScore(merge_idx[1]), PairScore(j))

(* C17: minimum selection.  At every merge step the pair merged is an      *)
(* adjacent pair whose Ward score is less than or equal to the score of    *)
(* every other adjacent pair of the current list.                          *)
C17_MinimumSelection == (ValidTarget /\ Rectangular /\ pc = "merge") => MinimumChosen

(* Minimum selection on finite input *)
MinimumSelectionOnFinite == (ValidInput /\ pc = "merge") => MinimumChosen

(* the pairs whose score is the minimum over the adjacent pairs *)
MinimalStarts ==
    {k \in PairStarts : \A j \in PairStarts : XLeq(PairScore(k), PairScore(j))}

LeftmostChosen ==
    \A k \in MinimalStarts : merge_idx[1] \in PairStarts /\ merge_idx[1] <= k

(* C18: tie-break.  When several adjacent pairs have exactly the same      *)
(* minimum score at a merge step, the one merged is the leftmost of them.  *)
C18_TieBreak ==
    (ValidTarget /\ Rectangular /\ pc = "merge" /\ Cardinality(MinimalStarts) >= 2)
        => LeftmostChosen

(* The tie-break on finite input *)
TieBreakOnFinite ==
    (ValidInput /\ pc = "merge" /\ Cardinality(MinimalStarts) >= 2)
        => /\ LeftmostChosen
           /\ merge_idx[1] \in MinimalStarts

--------------------------------------------------------------------------
(* (|I| centroid(I) + |J| centroid(J)) / (|I| + |J|) *)
WeightedMean(centroidI, sizeI, centroidJ, sizeJ) ==
    [c \in 1..Len(centroidI) |->
        XMul(XAdd(XMul(Fin(sizeI), centroidI[c]), XMul(Fin(sizeJ), centroidJ[c])),
             Rat(1, sizeI + sizeJ))]

(* every way a cluster can have been put together from two earlier ones *)
Splits(cluster) == 1..(Len(cluster) - 1)

(* C19: centroid semantics.  The centroid of every cluster of the list,    *)
(* as used for scoring and as returned, is the componentwise mean of the   *)
(* rows of its member periods, and for whichever two parts I, J the cluster *)
(* was merged from it equals (|I| c(I) + |J| c(J)) / (|I| + |J|).          *)
C19_CentroidSemantics ==
    (Live /\ Rectangular) =>
        \A q \in 1..Len(clusters) :
            LET cluster == clusters[q]
            IN  /\ compute_centroid(cluster) = MemberMean(cluster)
                /\ \A m \in Splits(cluster) :
                      compute_centroid(cluster) =
                          WeightedMean(compute_centroid(SubSeq(cluster, 1, m)), m,
                                       compute_centroid(SubSeq(cluster, m + 1, Len(cluster))),
                                       Len(cluster) - m)
                /\ pc = "done" => cluster_centroids[q] = MemberMean(cluster)

C19_Witness ==
    /\ pc = "done" /\ ValidInput /\ Len(data) = 4 /\ n_reduced = 2
    /\ clusters = << <<0, 1, 2>>, <<3>> >>
    /\ data[1] # data[2] /\ data[2] # data[3] /\ data[1] # data[3]
    /\ cluster_centroids[1] = MemberMean(<<0, 1, 2>>)

(* the list position of the cluster made by the last merge *)
LastMerged == merges[Len(merges)][1]

(* C20: incremental update.  After the first scan, a merge step computes   *)
(* the score of at most 2 adjacent pairs, those that involve the cluster   *)
(* just merged; the other scores are carried over, not computed again.     *)
C20_IncrementalUpdate ==
    [][(ValidInput /\ pc = "for" /\ i' = i + 1 /\ Len(merges) >= 1)
          => i \in {LastMerged - 1, LastMerged}]_vars

--------------------------------------------------------------------------
(* merge_idx names an adjacent pair of the current list *)
RealPair ==
    /\ merge_idx[1] \in PairStarts
    /\ merge_idx[2] = merge_idx[1] + 1

(* C21: valid merge index.  Whenever the merge of the loop body is         *)
(* applied, the scan has set merge_idx to an adjacent pair (i, i + 1) with *)
(* 0 <= i < len(clusters) - 1; the sentinel (-1, -1) is never the pair     *)
(* merged, for any data and any n_reduced.                                 *)
C21_ValidMergeIndex ==
    pc = "merge" => (RealPair /\ merge_idx # <<-1, -1>>)

(* The merge index on finite input with 1 <= n_reduced <= n *)
ValidMergeIndexOnFinite ==
    (ValidInput /\ pc = "merge") => (RealPair /\ merge_idx # <<-1, -1>>)
====
